---- MODULE Spec2Model ----
(***************************************************************************)
(* Office worker manager (src/app/officeWorker.ts, class                   *)
(* OfficeWorkerManager, second definition at lines 1142-2365) as a state   *)
(* machine: desks, meeting spaces, the day's events and the workers, which *)
(* updateWorkers() drives one worker at a time in array order.             *)
(*                                                                         *)
(* Identifiers are array indices (1-based); 0 stands for null.  The id     *)
(* strings themselves ("desk-x1", "event-x2", ...) are modelled by         *)
(* generateId where ids of different kinds are compared.                   *)
(* Points are abstract: <<"desk",k>> and <<"space",k>> are the             *)
(* destination points of desk k and space k, <<"door",0>> the place where  *)
(* workers are created, <<"entrance",0>> the point (150,300) of resetDay,  *)
(* <<"rand",0>> any other point (a random destination, or a point on the   *)
(* way), <<"none",0>> is a null destination.                               *)
(* Times are milliseconds.  The lastOccupiedTime/currentOccupiedTime       *)
(* stamps are not part of this model: no decision reads them.  Dialogs     *)
(* (speech bubbles) are read by no decision of the worker state machine    *)
(* either; they are kept in a variable of their own, dialogs, for the      *)
(* workers a specification follows the dialogs of (DOMAIN dialogs: every   *)
(* worker in SpecDialog, none elsewhere).                                  *)
(***************************************************************************)
EXTENDS Integers, Sequences, FiniteSets, TLC

----------------------------------------------------------------------------
\* Bounds of the model

\* number of desks of the layout (the layout of createDesks has 34)
MaxDesks == 2
\* number of meeting spaces of the layout (createSpaces makes 7)
NumSpaces == 2
\* largest numWorkers passed to initializeOffice
MaxWorkers == 2
\* number of events of a day (createEvents makes 5 to 10)
NumEvents == 2
\* deskSearchAttempts is not followed beyond this value
MaxAttempts == 4
\* largest number of events assignEventsToWorker draws (the code draws 1 to 3)
MaxWorkerEvents == 1

\* start times createEvents may draw, and times setCurrentTime is called with
StartTimes == {5000, 15000}
TimePoints == {4950, 14950, 29950, 55000}

----------------------------------------------------------------------------
\* Program constants

TotalTime == 60000
SimulationWorkDay == 540
MaxPreEventMinutes == 10
FrustrationLimit == 3
EventDurationMs == 20000

Null == 0
NoPoint == <<"none", 0>>
RandomPoint == <<"rand", 0>>
DoorPoint == <<"door", 0>>
EntrancePoint == <<"entrance", 0>>

generateId(prefix, k) == <<prefix, k>>

VARIABLES isManaged, currentTime, desks, spaces, events, workers, cursor, last,
          dialogs, clock

vars == <<isManaged, currentTime, desks, spaces, events, workers, cursor, last,
          dialogs, clock>>

\* clock is the state of Simulation's animation loop, <<deltaTime, dayCount,
\* number of calls of resetDay>>, in the specification that follows the
\* loop frame by frame, and NoClock in those that drive the manager directly
NoClock == << >>

----------------------------------------------------------------------------
\* The manager's registries as one record, threaded through the handlers.
\* m.log collects the names of the handler branches a step went through and
\* m.event is the event that handleSpaceArrival found for the worker (its
\* currentEvent); neither is read by a handler.

Registries == [isManaged |-> isManaged, desks |-> desks, spaces |-> spaces,
               events |-> events, workers |-> workers, log |-> {},
               event |-> Null]

Note(m, tag) == [m EXCEPT !.log = @ \cup {tag}]

Indices(s) == 1..Len(s)

\* setRandomDestination: a random point of the canvas
setRandomDestination(m, i) ==
    [m EXCEPT !.workers[i].destinationLocation = RandomPoint]

\* getDeskById / getSpaceById: the ids are indices, every id that a worker
\* or an event holds names a desk or space of the current layout
getDeskById(m, deskId) == m.desks[deskId]
getSpaceById(m, spaceId) == m.spaces[spaceId]

\* findDeskAtLocation / findSpaceAtLocation: the first desk (space) whose
\* destination point is within 15 (20) units.  Destination points of two
\* desks are at least 30 apart and those of two spaces more than 20, and an
\* arriving worker stands exactly on its destination.
findDeskAtLocation(m, p) ==
    IF p[1] = "desk" /\ p[2] \in Indices(m.desks) THEN p[2] ELSE Null
findSpaceAtLocation(m, p) ==
    IF p[1] = "space" /\ p[2] \in Indices(m.spaces) THEN p[2] ELSE Null

\* the desks findDeskForWorker may choose from
AvailableDesksFor(m, i) ==
    { d \in Indices(m.desks) :
        \/ m.desks[d].state = "AVAILABLE"
        \/ (m.desks[d].state = "ASSIGNED" /\ m.desks[d].occupiedBy = i) }

\* findDeskForWorker without the assigned desk's priority: the fault that
\* AssignedDeskChosen is there to exclude
findDeskForWorkerAnyDesk(m, i) ==
    LET w == m.workers[i]
        availableDesks == AvailableDesksFor(m, i)
        goTo(d) == Note([m EXCEPT
                        !.workers[i].destinationLocation = <<"desk", d>>,
                        !.workers[i].physicalState = "MOVING_TO_DESK",
                        !.workers[i].deskSearchAttempts = 0], "deskChosen")
    IN  IF w.deskSearchAttempts >= FrustrationLimit
        THEN { Note(setRandomDestination([m EXCEPT
                        !.workers[i].mentalState = "FRUSTRATED",
                        !.workers[i].physicalState = "WANDERING"], i), "gaveUp") }
        ELSE IF availableDesks # {}
        THEN { goTo(d) : d \in availableDesks }
        ELSE LET attempts == w.deskSearchAttempts + 1
             IN  { Note(setRandomDestination([m EXCEPT
                        !.workers[i].deskSearchAttempts = attempts,
                        !.workers[i].mentalState =
                            IF attempts >= FrustrationLimit
                            THEN "FRUSTRATED" ELSE "CONFUSED",
                        !.workers[i].physicalState = "WANDERING"], i), "noDesk") }

\* findDeskForWorker with a failed search that always leaves the worker
\* CONFUSED: the fault that FrustratedAtLimit is there to exclude
findDeskForWorkerConfused(m, i) ==
    LET w == m.workers[i]
        availableDesks == AvailableDesksFor(m, i)
        goTo(d) == Note([m EXCEPT
                        !.workers[i].destinationLocation = <<"desk", d>>,
                        !.workers[i].physicalState = "MOVING_TO_DESK",
                        !.workers[i].deskSearchAttempts = 0], "deskChosen")
    IN  IF w.deskSearchAttempts >= FrustrationLimit
        THEN { Note(setRandomDestination([m EXCEPT
                        !.workers[i].mentalState = "FRUSTRATED",
                        !.workers[i].physicalState = "WANDERING"], i), "gaveUp") }
        ELSE IF availableDesks # {}
        THEN IF m.isManaged /\ w.assignedDeskId # Null
                          /\ w.assignedDeskId \in availableDesks
             THEN { goTo(w.assignedDeskId) }
             ELSE { goTo(d) : d \in availableDesks }
        ELSE { Note(setRandomDestination([m EXCEPT
                        !.workers[i].deskSearchAttempts = @ + 1,
                        !.workers[i].mentalState = "CONFUSED",
                        !.workers[i].physicalState = "WANDERING"], i), "noDesk") }

\* findDeskForWorker that gives up at the limit only if there is no desk to
\* choose: the fault that GivesUpAtLimit is there to exclude
findDeskForWorkerEager(m, i) ==
    LET w == m.workers[i]
        availableDesks == AvailableDesksFor(m, i)
        goTo(d) == Note([m EXCEPT
                        !.workers[i].destinationLocation = <<"desk", d>>,
                        !.workers[i].physicalState = "MOVING_TO_DESK",
                        !.workers[i].deskSearchAttempts = 0], "deskChosen")
    IN  IF availableDesks # {}
        THEN IF m.isManaged /\ w.assignedDeskId # Null
                          /\ w.assignedDeskId \in availableDesks
             THEN { goTo(w.assignedDeskId) }
             ELSE { goTo(d) : d \in availableDesks }
        ELSE IF w.deskSearchAttempts >= FrustrationLimit
        THEN { Note(setRandomDestination([m EXCEPT
                        !.workers[i].mentalState = "FRUSTRATED",
                        !.workers[i].physicalState = "WANDERING"], i), "gaveUp") }
        ELSE LET attempts == w.deskSearchAttempts + 1
             IN  { Note(setRandomDestination([m EXCEPT
                        !.workers[i].deskSearchAttempts = attempts,
                        !.workers[i].mentalState =
                            IF attempts >= FrustrationLimit
                            THEN "FRUSTRATED" ELSE "CONFUSED",
                        !.workers[i].physicalState = "WANDERING"], i), "noDesk") }

\* findDeskForWorker: the set of possible outcomes (the desk is drawn at
\* random unless the managed assignment decides)
findDeskForWorker(m, i) ==
    LET w == m.workers[i]
        availableDesks == AvailableDesksFor(m, i)
        goTo(d) == Note([m EXCEPT
                        !.workers[i].destinationLocation = <<"desk", d>>,
                        !.workers[i].physicalState = "MOVING_TO_DESK",
                        !.workers[i].deskSearchAttempts = 0], "deskChosen")
    IN  IF w.deskSearchAttempts >= FrustrationLimit
        THEN { Note(setRandomDestination([m EXCEPT
                        !.workers[i].mentalState = "FRUSTRATED",
                        !.workers[i].physicalState = "WANDERING"], i), "gaveUp") }
        ELSE IF availableDesks # {}
        THEN IF m.isManaged /\ w.assignedDeskId # Null
                          /\ w.assignedDeskId \in availableDesks
             THEN { goTo(w.assignedDeskId) }
             ELSE { goTo(d) : d \in availableDesks }
        ELSE LET attempts == w.deskSearchAttempts + 1
             IN  { Note(setRandomDestination([m EXCEPT
                        !.workers[i].deskSearchAttempts = attempts,
                        !.workers[i].mentalState =
                            IF attempts >= FrustrationLimit
                            THEN "FRUSTRATED" ELSE "CONFUSED",
                        !.workers[i].physicalState = "WANDERING"], i), "noDesk") }

\* handleDeskArrival without the test of the desk's state: the fault that
\* DeskExclusive is there to exclude
handleDeskArrivalUnchecked(m, i) ==
    LET w == m.workers[i]
        d == findDeskAtLocation(m, w.location)
    IN  IF d = Null
        THEN { Note(setRandomDestination([m EXCEPT
                        !.workers[i].physicalState = "WANDERING"], i), "lostDesk") }
        ELSE { Note([m EXCEPT
                        !.desks[d].state =
                            IF @ = "ASSIGNED" THEN "ASSIGNED" ELSE "OCCUPIED",
                        !.desks[d].occupiedBy = i,
                        !.workers[i].physicalState = "WORKING",
                        !.workers[i].mentalState = "HAPPY",
                        !.workers[i].currentOccupiedDeskId = d], "deskClaimed") }

\* handleDeskArrival that leaves a worker that finds no desk where it is:
\* the fault that LostWorkerWanders is there to exclude
handleDeskArrivalStranded(m, i) ==
    LET w == m.workers[i]
        d == findDeskAtLocation(m, w.location)
    IN  IF d = Null
        THEN { Note([m EXCEPT !.workers[i].physicalState = "WANDERING"],
                    "lostDesk") }
        ELSE IF \/ m.desks[d].state = "AVAILABLE"
                \/ (m.desks[d].state = "ASSIGNED" /\ m.desks[d].occupiedBy = i)
        THEN { Note([m EXCEPT
                        !.desks[d].state =
                            IF @ = "ASSIGNED" THEN "ASSIGNED" ELSE "OCCUPIED",
                        !.desks[d].occupiedBy = i,
                        !.workers[i].physicalState = "WORKING",
                        !.workers[i].mentalState = "HAPPY",
                        !.workers[i].currentOccupiedDeskId = d], "deskClaimed") }
        ELSE findDeskForWorker(
                 Note([m EXCEPT !.workers[i].mentalState = "CONFUSED"],
                      "deskTaken"), i)

\* handleDeskArrival that leaves the mood of a worker that finds its desk
\* taken: the fault that TakenDeskUntouched is there to exclude
handleDeskArrivalKeepMood(m, i) ==
    LET w == m.workers[i]
        d == findDeskAtLocation(m, w.location)
    IN  IF d = Null
        THEN { Note(setRandomDestination([m EXCEPT
                        !.workers[i].physicalState = "WANDERING"], i), "lostDesk") }
        ELSE IF \/ m.desks[d].state = "AVAILABLE"
                \/ (m.desks[d].state = "ASSIGNED" /\ m.desks[d].occupiedBy = i)
        THEN { Note([m EXCEPT
                        !.desks[d].state =
                            IF @ = "ASSIGNED" THEN "ASSIGNED" ELSE "OCCUPIED",
                        !.desks[d].occupiedBy = i,
                        !.workers[i].physicalState = "WORKING",
                        !.workers[i].mentalState = "HAPPY",
                        !.workers[i].currentOccupiedDeskId = d], "deskClaimed") }
        ELSE findDeskForWorker(Note(m, "deskTaken"), i)

\* handleDeskArrival that does not record the desk with the worker: the
\* fault that CurrentDeskIffWorking is there to exclude
handleDeskArrivalUnrecorded(m, i) ==
    LET w == m.workers[i]
        d == findDeskAtLocation(m, w.location)
    IN  IF d = Null
        THEN { Note(setRandomDestination([m EXCEPT
                        !.workers[i].physicalState = "WANDERING"], i), "lostDesk") }
        ELSE IF \/ m.desks[d].state = "AVAILABLE"
                \/ (m.desks[d].state = "ASSIGNED" /\ m.desks[d].occupiedBy = i)
        THEN { Note([m EXCEPT
                        !.desks[d].state =
                            IF @ = "ASSIGNED" THEN "ASSIGNED" ELSE "OCCUPIED",
                        !.desks[d].occupiedBy = i,
                        !.workers[i].physicalState = "WORKING",
                        !.workers[i].mentalState = "HAPPY"], "deskClaimed") }
        ELSE findDeskForWorker(
                 Note([m EXCEPT !.workers[i].mentalState = "CONFUSED"],
                      "deskTaken"), i)

\* handleDeskArrival
handleDeskArrival(m, i) ==
    LET w == m.workers[i]
        d == findDeskAtLocation(m, w.location)
    IN  IF d = Null
        THEN { Note(setRandomDestination([m EXCEPT
                        !.workers[i].physicalState = "WANDERING"], i), "lostDesk") }
        ELSE IF \/ m.desks[d].state = "AVAILABLE"
                \/ (m.desks[d].state = "ASSIGNED" /\ m.desks[d].occupiedBy = i)
        THEN { Note([m EXCEPT
                        !.desks[d].state =
                            IF @ = "ASSIGNED" THEN "ASSIGNED" ELSE "OCCUPIED",
                        !.desks[d].occupiedBy = i,
                        !.workers[i].physicalState = "WORKING",
                        !.workers[i].mentalState = "HAPPY",
                        !.workers[i].currentOccupiedDeskId = d], "deskClaimed") }
        ELSE findDeskForWorker(
                 Note([m EXCEPT !.workers[i].mentalState = "CONFUSED"],
                      "deskTaken"), i)

\* getRandomPreEventTime that draws up to one minute more: the fault that
\* DepartureWindow is there to exclude
getRandomPreEventTimeLong ==
    { n * TotalTime : n \in 1..(MaxPreEventMinutes + 1) }

\* getRandomPreEventTime: 1 to 10 simulated minutes in milliseconds,
\* n * (TotalTime / SimulationWorkDay).  The quotient is no integer, so the
\* windows are kept multiplied by SimulationWorkDay, and so is every time
\* difference compared with one (WithinWindow).
getRandomPreEventTime == { n * TotalTime : n \in 1..MaxPreEventMinutes }

WithinWindow(delta, window) == delta * SimulationWorkDay <= window

\* Array.prototype.find over a list of ids: the first of the list whose
\* place is among hits, the places that satisfy the test
FindFirst(ids, hits) ==
    IF hits = {} THEN Null
    ELSE ids[CHOOSE j \in hits : \A k \in hits : j <= k]

\* getNextEventStartingSoon: the possible results, one per window drawn
getNextEventStartingSoon(m, i) ==
    { LET ids == m.workers[i].workerEventIds
          soon(e) ==
              /\ WithinWindow(m.events[e].startTime - currentTime, timeWindow)
              /\ m.events[e].endTime > currentTime
      IN  FindFirst(ids, { j \in 1..Len(ids) : soon(ids[j]) })
      : timeWindow \in getRandomPreEventTime }

\* findEventBySpace: the first event of the registry bound to the space
findEventBySpace(m, spaceId) ==
    LET hits == { e \in Indices(m.events) : m.events[e].spaceId = spaceId }
    IN  IF hits = {} THEN Null
        ELSE CHOOSE e \in hits : \A k \in hits : e <= k

\* findSpaceForWorkerEvent that sends the worker to the event's space even
\* when no space is AVAILABLE: the fault that NoSpaceFallback is there to
\* exclude
findSpaceForWorkerEventAnyway(m, i, e) ==
    LET availableSpaces ==
            { s \in Indices(m.spaces) : m.spaces[s].state = "AVAILABLE" }
    IN  IF availableSpaces # {}
        THEN { Note([m EXCEPT
                   !.workers[i].destinationLocation = <<"space", s>>,
                   !.workers[i].physicalState = "MOVING_TO_SPACE"],
                   "spaceRandom") : s \in availableSpaces }
        ELSE { Note([m EXCEPT
                   !.workers[i].mentalState = "FRUSTRATED",
                   !.workers[i].destinationLocation =
                       <<"space", m.events[e].spaceId>>,
                   !.workers[i].physicalState = "MOVING_TO_SPACE"],
                   "noSpace") }

\* findSpaceForWorkerEvent
findSpaceForWorkerEvent(m, i, e) ==
    LET w == m.workers[i]
        event == m.events[e]
        goToSpace(s, tag) == Note([m EXCEPT
                        !.workers[i].destinationLocation = <<"space", s>>,
                        !.workers[i].physicalState = "MOVING_TO_SPACE"], tag)
        availableSpaces ==
            { s \in Indices(m.spaces) : m.spaces[s].state = "AVAILABLE" }
        seated(a) == /\ a # i
                     /\ m.workers[a].currentOccupiedSpaceId # Null
                     /\ m.workers[a].physicalState = "ATTENDING_EVENT"
        attendee == FindFirst(event.attendeeIds,
                              { j \in 1..Len(event.attendeeIds) :
                                    seated(event.attendeeIds[j]) })
        frustrated == Note([m EXCEPT !.workers[i].mentalState = "FRUSTRATED"],
                           "noSpace")
    IN  IF event.spaceId # Null
           /\ getSpaceById(m, event.spaceId).state = "AVAILABLE"
        THEN { goToSpace(event.spaceId, "spaceOfEvent") }
        ELSE IF availableSpaces # {}
        THEN IF attendee # Null
             THEN { goToSpace(m.workers[attendee].currentOccupiedSpaceId,
                              "spaceOfAttendee") }
             ELSE { goToSpace(s, "spaceRandom") : s \in availableSpaces }
        ELSE IF w.lastOccupiedDeskId # Null
                /\ getDeskById(m, w.lastOccupiedDeskId).state = "AVAILABLE"
        THEN { Note([frustrated EXCEPT
                        !.workers[i].destinationLocation =
                            <<"desk", w.lastOccupiedDeskId>>,
                        !.workers[i].physicalState = "MOVING_TO_DESK"],
                    "backToLastDesk") }
        ELSE findDeskForWorker(frustrated, i)

\* handleSpaceArrival, once the qualifying event is known (0: none)
handleSpaceArrivalFor(m, i, currentEvent) ==
    LET w == m.workers[i]
        s == findSpaceAtLocation(m, w.location)
        lost == { Note(setRandomDestination([m EXCEPT
                        !.workers[i].physicalState = "WANDERING"], i), "lostSpace") }
    IN  IF currentEvent = Null THEN lost
        ELSE IF s = Null THEN lost
        ELSE IF m.spaces[s].state = "OCCUPIED"
        THEN IF findEventBySpace(m, s) # Null
                /\ findEventBySpace(m, s) = currentEvent
             THEN { Note([m EXCEPT
                        !.workers[i].physicalState = "ATTENDING_EVENT",
                        !.workers[i].currentOccupiedSpaceId = s], "spaceJoined") }
             ELSE findSpaceForWorkerEvent(
                      Note([m EXCEPT !.workers[i].mentalState = "CONFUSED"],
                           "spaceCollision"), i, currentEvent)
        ELSE { Note([m EXCEPT
                        !.spaces[s].state = "OCCUPIED",
                        !.workers[i].physicalState = "ATTENDING_EVENT",
                        !.workers[i].currentOccupiedSpaceId = s,
                        !.events[currentEvent].spaceId = s], "spaceClaimed") }

handleSpaceArrival(m, i) ==
    UNION { handleSpaceArrivalFor([m EXCEPT !.event = currentEvent], i,
                                  currentEvent) :
                currentEvent \in getNextEventStartingSoon(m, i) }

\* handleWorkerArrival
handleWorkerArrival(m, i) ==
    LET st == m.workers[i].physicalState
    IN  IF st = "MOVING_TO_DESK" THEN handleDeskArrival(m, i)
        ELSE IF st = "MOVING_TO_SPACE" THEN handleSpaceArrival(m, i)
        ELSE IF st = "ARRIVING" THEN findDeskForWorker(m, i)
        ELSE IF st = "WANDERING" THEN { setRandomDestination(m, i) }
        ELSE { m }

\* updateWorkerState, lines 1984-2007: the worker gives its space up.  The
\* filter looks for the space's id among the event ids of each worker.
OtherWorkersInSpace(m, spaceId) ==
    { x \in Indices(m.workers) :
        \E j \in 1..Len(m.workers[x].workerEventIds) :
            generateId("event", m.workers[x].workerEventIds[j])
                = generateId("space", spaceId) }

\* releaseSpace without the change of the space's state: the fault that
\* SoleAttendeeLeaves is there to exclude
releaseSpaceKeepState(m, i) ==
    LET spaceId == m.workers[i].currentOccupiedSpaceId
    IN  IF spaceId = Null THEN m
        ELSE [m EXCEPT
                !.workers[i].lastOccupiedSpaceId = spaceId,
                !.workers[i].currentOccupiedSpaceId = Null]

\* releaseSpace that leaves the space with the worker: the fault that
\* CurrentSpaceIffAttending is there to exclude
releaseSpaceKeepWorker(m, i) ==
    LET spaceId == m.workers[i].currentOccupiedSpaceId
    IN  IF spaceId = Null THEN m
        ELSE [m EXCEPT
                !.spaces[spaceId].state =
                    IF OtherWorkersInSpace(m, spaceId) = {}
                    THEN "AVAILABLE" ELSE @,
                !.workers[i].lastOccupiedSpaceId = spaceId]

releaseSpace(m, i) ==
    LET spaceId == m.workers[i].currentOccupiedSpaceId
    IN  IF spaceId = Null THEN m
        ELSE [m EXCEPT
                !.spaces[spaceId].state =
                    IF OtherWorkersInSpace(m, spaceId) = {}
                    THEN "AVAILABLE" ELSE @,
                !.workers[i].lastOccupiedSpaceId = spaceId,
                !.workers[i].currentOccupiedSpaceId = Null]

\* updateWorkerState, lines 1969-2046: an ATTENDING_EVENT worker whose
\* first event is over leaves and looks for a desk
leaveEvent(m, i) ==
    LET m1 == Note(releaseSpace(m, i), "eventEnded")
        deskId == m1.workers[i].lastOccupiedDeskId
    IN  IF deskId # Null
        THEN IF getDeskById(m1, deskId).state = "AVAILABLE"
             THEN { Note([m1 EXCEPT
                        !.workers[i].destinationLocation = <<"desk", deskId>>,
                        !.workers[i].physicalState = "MOVING_TO_DESK",
                        !.workers[i].deskSearchAttempts = 0], "backToLastDesk") }
             ELSE findDeskForWorker(Note([m1 EXCEPT
                        !.workers[i].mentalState = "CONFUSED",
                        !.workers[i].physicalState = "WANDERING",
                        !.workers[i].deskSearchAttempts = @ + 1], "stolenDesk"), i)
        ELSE findDeskForWorker([m1 EXCEPT
                        !.workers[i].deskSearchAttempts = @ + 1,
                        !.workers[i].physicalState = "WANDERING"], i)

\* getNextEvent: always the first event of the worker's list
getNextEvent(m, i) ==
    IF Len(m.workers[i].workerEventIds) > 0
    THEN m.workers[i].workerEventIds[1] ELSE Null

eventOver(m, i) ==
    \/ getNextEvent(m, i) = Null
    \/ currentTime > m.events[getNextEvent(m, i)].endTime

\* departForEvent that forgets the desk: the fault that VacatesOnDeparture
\* is there to exclude
departForEventKeepDesk(m, i, e) ==
    findSpaceForWorkerEvent(Note(m, "departed"), i, e)

\* updateWorkerState, lines 2061-2085: leave the desk and head for a space
departForEvent(m, i, e) ==
    LET w == m.workers[i]
        deskId == w.currentOccupiedDeskId
        m1 == IF w.physicalState = "WORKING" /\ deskId # Null
              THEN [m EXCEPT
                        !.desks[deskId].state =
                            IF @ = "OCCUPIED" THEN "AVAILABLE" ELSE @,
                        !.desks[deskId].occupiedBy = Null,
                        !.workers[i].lastOccupiedDeskId = deskId,
                        !.workers[i].currentOccupiedDeskId = Null]
              ELSE m
    IN  findSpaceForWorkerEvent(Note(m1, "departed"), i, e)

\* updateWorkerState, lines 2053-2088
checkUpcomingEvent(m, i) ==
    LET e == getNextEvent(m, i)
        timeUntilEvent == m.events[e].startTime - currentTime
    IN  IF e = Null THEN { m }
        ELSE UNION { IF timeUntilEvent > 0 /\ WithinWindow(timeUntilEvent, window)
                     THEN departForEvent(m, i, e)
                     ELSE { m }
                     : window \in getRandomPreEventTime }

\* updateWorkerState, lines 2091-2125: a wandering worker retries now and
\* then when frustrated, and otherwise changes mood now and then
wanderingMood(m, i) ==
    LET w == m.workers[i]
    IN  IF w.physicalState # "WANDERING" THEN { m }
        ELSE IF w.mentalState = "FRUSTRATED"
        THEN { m } \cup findDeskForWorker(Note([m EXCEPT
                        !.workers[i].deskSearchAttempts = 0], "retry"), i)
        ELSE { m } \cup { Note([m EXCEPT !.workers[i].mentalState = mood],
                               "moodRoll")
                          : mood \in {"FRUSTRATED", "CONFUSED", "HAPPY"} }

\* updateWorkerState without its first test, so that workers on their way
\* are looked at too: the fault that MovingUntouched is there to exclude
updateWorkerStateAnyState(m, i) ==
    IF m.workers[i].physicalState = "ATTENDING_EVENT"
    THEN IF eventOver(m, i) THEN leaveEvent(m, i) ELSE { m }
    ELSE UNION { wanderingMood(m1, i) : m1 \in checkUpcomingEvent(m, i) }

updateWorkerState(m, i) ==
    LET st == m.workers[i].physicalState
    IN  IF st \notin {"WORKING", "WANDERING", "ATTENDING_EVENT"} THEN { m }
        ELSE IF st = "ATTENDING_EVENT"
        THEN IF eventOver(m, i) THEN leaveEvent(m, i) ELSE { m }
        ELSE UNION { wanderingMood(m1, i) : m1 \in checkUpcomingEvent(m, i) }

\* moveWorkerTowardsDestination: the destination is reached when it is
\* less than one step (2 units) away.  A worker standing on a desk or space
\* point is there when that point is its destination and at least 30 units
\* from every other desk or space point; the door (y = 30) is at least 20
\* units from every destination.
CanArrive(loc, dest) ==
    \/ loc = dest
    \/ loc = RandomPoint
    \/ (dest = RandomPoint /\ loc # DoorPoint)

MustArrive(loc, dest) == loc = dest /\ dest # RandomPoint

\* moveWorkerTowardsDestination with a distance test that never succeeds:
\* the fault that OneDeskOutcome is there to exclude
moveWorkerTowardsDestinationNever(m, i) ==
    IF m.workers[i].destinationLocation = NoPoint THEN { m }
    ELSE { [m EXCEPT !.workers[i].location = RandomPoint] }

moveWorkerTowardsDestination(m, i) ==
    LET w == m.workers[i]
        arrived == [m EXCEPT !.workers[i].location = w.destinationLocation,
                             !.workers[i].destinationLocation = NoPoint]
        onTheWay == [m EXCEPT !.workers[i].location = RandomPoint]
    IN  IF w.destinationLocation = NoPoint THEN { m }
        ELSE (IF CanArrive(w.location, w.destinationLocation)
              THEN { arrived } ELSE {})
             \cup
             (IF MustArrive(w.location, w.destinationLocation)
              THEN {} ELSE { onTheWay })

\* updateWorkers: the body of the forEach for worker i
updateWorker(m, i) ==
    UNION { IF m1.workers[i].destinationLocation # NoPoint
            THEN UNION { IF m2.workers[i].destinationLocation = NoPoint
                         THEN handleWorkerArrival(Note(m2, "arrived"), i)
                         ELSE { m2 }
                         : m2 \in moveWorkerTowardsDestination(m1, i) }
            ELSE { m1 }
            : m1 \in updateWorkerState(m, i) }

----------------------------------------------------------------------------
\* Construction of a day

\* createDesks / createSpaces: the fixed layout, every desk and space free
createDesks(numDesks) ==
    [d \in 1..numDesks |-> [state |-> "AVAILABLE", occupiedBy |-> Null]]

createSpaces(numSpaces) == [s \in 1..numSpaces |-> [state |-> "AVAILABLE"]]

\* createEvents: each event gets a random start time, start[e] (after 10
\* rejected draws any start is taken, so no spacing is guaranteed) and is
\* given the first AVAILABLE space, or the first space if there is none
createEvents(m, start) ==
    LET availableSpaces ==
            { s \in Indices(m.spaces) : m.spaces[s].state = "AVAILABLE" }
        firstSpace == IF availableSpaces # {}
                      THEN CHOOSE s \in availableSpaces :
                               \A k \in availableSpaces : s <= k
                      ELSE 1
    IN  [m EXCEPT !.events =
            [e \in 1..NumEvents |->
                [startTime |-> start[e],
                 endTime |-> start[e] + EventDurationMs,
                 attendeeIds |-> << >>,
                 spaceId |-> firstSpace]]]

\* Array.prototype.sort by start time (stable): the place of each pick
SortByStartTime(m, picks) ==
    LET n == Len(picks)
        before(k, j) ==
            \/ m.events[picks[k]].startTime < m.events[picks[j]].startTime
            \/ /\ m.events[picks[k]].startTime = m.events[picks[j]].startTime
               /\ k < j
        rank(j) == 1 + Cardinality({ k \in 1..n : before(k, j) })
    IN  [r \in 1..n |-> picks[CHOOSE j \in 1..n : rank(j) = r]]

\* the draws of assignEventsToWorker: 1 to MaxWorkerEvents events, drawn
\* with replacement
EventPicks ==
    UNION { [1..n -> 1..NumEvents] : n \in 1..MaxWorkerEvents }

\* assignEventsToWorker that keeps the events in the order drawn: the fault
\* that EventListsSound is there to exclude
assignEventsToWorkerUnsorted(m, i, picks) ==
    IF Len(m.events) = 0 THEN m
    ELSE LET pushed(e) == [j \in 1..Cardinality({ k \in 1..Len(picks) :
                                                   picks[k] = e }) |-> i]
         IN  [m EXCEPT
                !.events = [e \in Indices(m.events) |->
                    [m.events[e] EXCEPT !.attendeeIds = @ \o pushed(e)]],
                !.workers[i].workerEventIds = picks,
                !.workers[i].nextEventTime = m.events[picks[1]].startTime]

\* assignEventsToWorker, for the events drawn (picks)
assignEventsToWorker(m, i, picks) ==
    IF Len(m.events) = 0 THEN m
    ELSE LET sortedEventIds == SortByStartTime(m, picks)
             pushed(e) == [j \in 1..Cardinality({ k \in 1..Len(picks) :
                                                   picks[k] = e }) |-> i]
         IN  [m EXCEPT
                !.events = [e \in Indices(m.events) |->
                    [m.events[e] EXCEPT !.attendeeIds = @ \o pushed(e)]],
                !.workers[i].workerEventIds = sortedEventIds,
                !.workers[i].nextEventTime =
                    m.events[sortedEventIds[1]].startTime]

NewWorker(assignedDeskId) ==
    [ location |-> DoorPoint,
      assignedDeskId |-> assignedDeskId,
      lastOccupiedDeskId |-> Null,
      currentOccupiedDeskId |-> Null,
      lastOccupiedSpaceId |-> Null,
      currentOccupiedSpaceId |-> Null,
      mentalState |-> "HAPPY",
      physicalState |-> "ARRIVING",
      destinationLocation |-> NoPoint,
      nextEventTime |-> Null,
      workerEventIds |-> << >>,
      deskSearchAttempts |-> 0 ]

\* createWorkers: the body of the loop for worker i (i - 1 in the code)
createWorker(m, i, picks) ==
    LET deskId == IF m.isManaged THEN ((i - 1) % Len(m.desks)) + 1 ELSE Null
        m1 == [m EXCEPT !.workers = Append(@, NewWorker(deskId))]
        m2 == IF m.isManaged /\ deskId # Null
              THEN [m1 EXCEPT
                      !.desks[deskId].state = "ASSIGNED",
                      !.desks[deskId].occupiedBy = i,
                      !.workers[i].destinationLocation = <<"desk", deskId>>,
                      !.workers[i].physicalState = "MOVING_TO_DESK"]
              ELSE setRandomDestination(m1, i)
    IN  assignEventsToWorker(m2, i, picks)

RECURSIVE createWorkersFrom(_, _, _, _)
createWorkersFrom(m, i, numWorkers, picksOf) ==
    IF i > numWorkers THEN m
    ELSE createWorkersFrom(createWorker(m, i, picksOf[i]), i + 1,
                           numWorkers, picksOf)

createWorkers(m, numWorkers, picksOf) ==
    createWorkersFrom([m EXCEPT !.workers = << >>], 1, numWorkers, picksOf)

\* initializeOffice, for the start times and the events drawn
initializeOffice(m, numWorkers, start, picksOf) ==
    createWorkers(createEvents([m EXCEPT
                                  !.desks = createDesks(Len(m.desks)),
                                  !.spaces = createSpaces(Len(m.spaces))],
                              start),
                  numWorkers, picksOf)

\* the body of resetDay's loop with the assignment dropped too: the fault
\* that AssignmentKept is there to exclude
resetWorkerUnassign(m, i, picks) ==
    assignEventsToWorker([m EXCEPT
        !.workers[i].assignedDeskId = Null,
        !.workers[i].lastOccupiedDeskId = Null,
        !.workers[i].currentOccupiedDeskId = Null,
        !.workers[i].lastOccupiedSpaceId = Null,
        !.workers[i].currentOccupiedSpaceId = Null,
        !.workers[i].location = EntrancePoint,
        !.workers[i].physicalState = "ARRIVING",
        !.workers[i].mentalState = "HAPPY",
        !.workers[i].destinationLocation = NoPoint,
        !.workers[i].deskSearchAttempts = 0,
        !.workers[i].workerEventIds = << >>], i, picks)

\* resetDay: the body of the loop over the workers
\* the body of resetDay's loop without the mood: the fault that
\* FreshDay is there to exclude
resetWorkerKeepMood(m, i, picks) ==
    assignEventsToWorker([m EXCEPT
        !.workers[i].lastOccupiedDeskId = Null,
        !.workers[i].currentOccupiedDeskId = Null,
        !.workers[i].lastOccupiedSpaceId = Null,
        !.workers[i].currentOccupiedSpaceId = Null,
        !.workers[i].location = EntrancePoint,
        !.workers[i].physicalState = "ARRIVING",
        !.workers[i].destinationLocation = NoPoint,
        !.workers[i].deskSearchAttempts = 0,
        !.workers[i].workerEventIds = << >>], i, picks)

resetWorker(m, i, picks) ==
    assignEventsToWorker([m EXCEPT
        !.workers[i].lastOccupiedDeskId = Null,
        !.workers[i].currentOccupiedDeskId = Null,
        !.workers[i].lastOccupiedSpaceId = Null,
        !.workers[i].currentOccupiedSpaceId = Null,
        !.workers[i].location = EntrancePoint,
        !.workers[i].physicalState = "ARRIVING",
        !.workers[i].mentalState = "HAPPY",
        !.workers[i].destinationLocation = NoPoint,
        !.workers[i].deskSearchAttempts = 0,
        !.workers[i].workerEventIds = << >>], i, picks)

RECURSIVE resetWorkersFrom(_, _, _)
resetWorkersFrom(m, i, picksOf) ==
    IF i > Len(m.workers) THEN m
    ELSE resetWorkersFrom(resetWorker(m, i, picksOf[i]), i + 1, picksOf)

\* resetDay, lines 2302-2307: the desks
resetDesk(desk, managed) ==
    [ state |-> IF managed /\ desk.occupiedBy # Null
                THEN "ASSIGNED" ELSE "AVAILABLE",
      occupiedBy |-> IF ~managed THEN Null ELSE desk.occupiedBy ]

\* resetDay with the desks laid out anew, one desk short: the fault that
\* DesksConserved is there to exclude
resetDayRebuilt(m, start, picksOf) ==
    resetWorkersFrom(
        createEvents([m EXCEPT
            !.desks = createDesks(Len(m.desks) - 1),
            !.spaces = [s \in Indices(m.spaces) |-> [state |-> "AVAILABLE"]]],
            start),
        1, picksOf)

\* resetDay, for the start times and the events drawn
resetDay(m, start, picksOf) ==
    resetWorkersFrom(
        createEvents([m EXCEPT
            !.desks = [d \in Indices(m.desks) |-> resetDesk(m.desks[d], m.isManaged)],
            !.spaces = [s \in Indices(m.spaces) |-> [state |-> "AVAILABLE"]]],
            start),
        1, picksOf)

----------------------------------------------------------------------------
\* Dialogs.  A dialog is <<startTime, duration>>; NoDialog is null.

NoDialog == << >>

\* the default duration of setWorkerDialog, and of resetDay's dialog
DialogDuration == 5000

\* the duration of the dialog createWorkers gives a new worker
HelloDuration == 60000

setWorkerDialog == <<currentTime, DialogDuration>>

updateWorkerDialog(dialog) ==
    IF dialog # NoDialog /\ currentTime - dialog[1] > dialog[2]
    THEN NoDialog ELSE dialog

\* the handler branches that call setWorkerDialog whenever they are taken
SpeakingBranches ==
    {"deskClaimed", "deskTaken", "spaceJoined", "spaceCollision",
     "eventEnded", "stolenDesk", "departed", "gaveUp", "noDesk"}

\* The dialogs a worker may have after the handlers of one step, which took
\* it from w0 to w1 through the branches of log.  Besides the branches that
\* always speak, a mood roll speaks always when it ends FRUSTRATED or
\* CONFUSED and now and then when it ends HAPPY; a FRUSTRATED wanderer, a
\* wanderer or a worker at its desk without a dialog, and a wanderer that
\* reaches its random destination speak now and then.
spoken(log, w0, w1, dialog) ==
    LET always == \/ log \cap SpeakingBranches # {}
                  \/ /\ "moodRoll" \in log
                     /\ w1.mentalState \in {"FRUSTRATED", "CONFUSED"}
        nowAndThen ==
            \/ "moodRoll" \in log
            \/ /\ w0.physicalState = "WANDERING"
               /\ w0.mentalState = "FRUSTRATED"
            \/ /\ w0.physicalState \in {"WANDERING", "WORKING"}
               /\ dialog = NoDialog
            \/ /\ "arrived" \in log
               /\ w1.physicalState = "WANDERING"
               /\ log \cap {"lostDesk", "lostSpace"} = {}
    IN  IF always THEN { setWorkerDialog }
        ELSE IF nowAndThen THEN { setWorkerDialog, dialog }
        ELSE { dialog }

\* the dialogs after the handlers of a step have taken worker i from w0 to
\* m.workers[i]
Spoken(m, i, w0) ==
    IF i \notin DOMAIN dialogs THEN { dialogs }
    ELSE { [dialogs EXCEPT ![i] = d]
           : d \in spoken(m.log, w0, m.workers[i], dialogs[i]) }

\* the dialogs after updateWorkers' body for worker i, which ends with
\* updateWorkerDialog
SpokenAndChecked(m, i, w0) ==
    IF i \notin DOMAIN dialogs THEN { dialogs }
    ELSE { [dialogs EXCEPT ![i] = updateWorkerDialog(d)]
           : d \in spoken(m.log, w0, m.workers[i], dialogs[i]) }

----------------------------------------------------------------------------
\* The state machine

Install(m, op, i) ==
    /\ isManaged' = m.isManaged
    /\ desks' = m.desks
    /\ spaces' = m.spaces
    /\ events' = m.events
    /\ workers' = m.workers
    /\ last' = [op |-> op, worker |-> i, log |-> m.log, event |-> m.event]

\* the state after `new OfficeWorkerManager(w, h)`, with the layout that
\* initializeOffice builds: numDesks desks and NumSpaces spaces
Init ==
    /\ isManaged = FALSE
    /\ currentTime = 0
    /\ \E numDesks \in 1..MaxDesks : desks = createDesks(numDesks)
    /\ spaces = createSpaces(NumSpaces)
    /\ events = << >>
    /\ workers = << >>
    /\ cursor = 0
    /\ last = [op |-> "new", worker |-> 0, log |-> {}, event |-> Null]
    /\ dialogs = << >>
    /\ clock = NoClock

\* a day that no tick has touched yet: every worker is where createWorkers
\* or resetDay put it
DayFresh ==
    \A i \in Indices(workers) :
        workers[i].location \in {DoorPoint, EntrancePoint}

\* setManagedMode
SetManagedMode ==
    /\ cursor = 0
    /\ \E b \in BOOLEAN : isManaged' = b
    /\ last' = [op |-> "setManagedMode", worker |-> 0, log |-> {},
                event |-> Null]
    /\ UNCHANGED <<currentTime, desks, spaces, events, workers, cursor, dialogs, clock>>

\* setCurrentTime, as Simulation.animate calls it: with the time elapsed
\* modulo the day, which goes back only where a day starts
SetCurrentTimeAt(times) ==
    /\ cursor = 0
    /\ \E time \in times :
          /\ time > currentTime \/ DayFresh
          /\ currentTime' = time
    /\ last' = [op |-> "setCurrentTime", worker |-> 0, log |-> {},
                event |-> Null]
    /\ UNCHANGED <<isManaged, desks, spaces, events, workers, cursor, dialogs, clock>>

SetCurrentTime == SetCurrentTimeAt(TimePoints)

\* initializeOffice, as the constructor of Simulation calls it
\* (managed = isManaged) and as Simulation.toggleMode does, after
\* setManagedMode (managed = ~isManaged).  It replaces every desk, space,
\* event and worker, so that what it leaves does not depend on how far the
\* day had got: the model calls it on fresh days only, at any time of day.
InitializeOffice ==
    /\ cursor = 0
    /\ DayFresh
    /\ \E managed \in BOOLEAN,
          start \in [1..NumEvents -> StartTimes],
          picksOf \in [1..MaxWorkers -> EventPicks] :
          /\ managed = isManaged \/ Len(workers) > 0
          /\ \E m \in { initializeOffice(
                             [Registries EXCEPT !.isManaged = managed],
                             MaxWorkers, start, picksOf) } :
                Install(m, "initializeOffice", 0)
    /\ dialogs' = [i \in DOMAIN dialogs |-> <<currentTime, HelloDuration>>]
    /\ UNCHANGED <<currentTime, cursor, clock>>

\* resetDay, with the events of the new day drawn from starts and the
\* events of each worker from picks
ResetDayWith(starts, picks) ==
    /\ cursor = 0
    /\ Len(workers) > 0
    /\ \E start \in [1..NumEvents -> starts],
          picksOf \in [1..MaxWorkers -> picks] :
          \E m \in { resetDay(Registries, start, picksOf) } :
              Install(m, "resetDay", 0)
    /\ dialogs' = [i \in DOMAIN dialogs |-> <<currentTime, DialogDuration>>]
    /\ UNCHANGED <<currentTime, cursor, clock>>

ResetDay == ResetDayWith(StartTimes, EventPicks)

\* updateWorkers: one step per worker, in array order; cursor is the index
\* of the worker handled last in the running call (0: no call is running)
UpdateWorkers ==
    /\ cursor < Len(workers)
    /\ \E m \in updateWorker(Registries, cursor + 1) :
          /\ m.workers[cursor + 1].deskSearchAttempts <= MaxAttempts
          /\ Install(m, "updateWorkers", cursor + 1)
          /\ dialogs' \in SpokenAndChecked(m, cursor + 1, workers[cursor + 1])
    /\ cursor' = IF cursor + 1 = Len(workers) THEN 0 ELSE cursor + 1
    /\ UNCHANGED <<currentTime, clock>>

Next ==
    \/ SetCurrentTime
    \/ InitializeOffice
    \/ ResetDay
    \/ UpdateWorkers

Spec == Init /\ [][Next]_vars

----------------------------------------------------------------------------
\* One day in a chaotic office of one desk and two workers: the state after
\* initializeOffice(2), then ticks.  The animation loop never stops calling
\* updateWorkers, and a worker that moves 2 units a tick towards its
\* destination gets there.

InitOneDesk ==
    /\ currentTime = 0
    /\ cursor = 0
    /\ \E start \in [1..NumEvents -> StartTimes],
          picksOf \in [1..2 -> EventPicks] :
          \E m \in { initializeOffice(
                        [isManaged |-> FALSE, desks |-> createDesks(1),
                         spaces |-> createSpaces(NumSpaces), events |-> << >>,
                         workers |-> << >>, log |-> {}, event |-> Null],
                        2, start, picksOf) } :
              /\ isManaged = m.isManaged
              /\ desks = m.desks
              /\ spaces = m.spaces
              /\ events = m.events
              /\ workers = m.workers
              /\ last = [op |-> "initializeOffice", worker |-> 0,
                         log |-> {}, event |-> Null]
              /\ dialogs = << >>
              /\ clock = NoClock

\* the step of updateWorkers in which worker i reaches its destination
Arrive(i) ==
    /\ UpdateWorkers
    /\ cursor + 1 = i
    /\ "arrived" \in last'.log

NextOneDesk ==
    \/ SetCurrentTime
    \/ UpdateWorkers

SpecOneDesk ==
    /\ InitOneDesk
    /\ [][NextOneDesk]_vars
    /\ WF_vars(UpdateWorkers)
    /\ \A i \in 1..2 : SF_vars(Arrive(i))

----------------------------------------------------------------------------
\* findDeskForWorker as a function of the manager's state: the states it is
\* applied to are drawn, and every step is one call of it.

\* the values of a desk: AVAILABLE desks have no occupant, OCCUPIED desks
\* have one, and ASSIGNED desks (managed mode only) have their worker as
\* occupant, or none once that worker has left for an event
DeskValuesFor(managed) ==
    { [state |-> "AVAILABLE", occupiedBy |-> Null] }
    \cup { [state |-> "OCCUPIED", occupiedBy |-> o] : o \in 1..MaxWorkers }
    \cup IF managed
         THEN { [state |-> "ASSIGNED", occupiedBy |-> o] : o \in 0..MaxWorkers }
         ELSE {}

\* a worker that walks about the office, with the desk createWorkers
\* assigned to it
SearchingWorker(assignedDeskId, attempts, mood) ==
    [NewWorker(assignedDeskId) EXCEPT
        !.location = RandomPoint,
        !.destinationLocation = RandomPoint,
        !.physicalState = "WANDERING",
        !.mentalState = mood,
        !.deskSearchAttempts = attempts]

InitFindDesk ==
    /\ isManaged \in BOOLEAN
    /\ currentTime = 0
    /\ \E numDesks \in 1..MaxDesks :
          /\ desks \in [1..numDesks -> DeskValuesFor(isManaged)]
          /\ \E attempts \in 0..MaxAttempts,
                mood \in {"HAPPY", "CONFUSED", "FRUSTRATED"} :
                workers = [i \in 1..MaxWorkers |->
                    SearchingWorker(
                        IF isManaged THEN ((i - 1) % numDesks) + 1 ELSE Null,
                        attempts, mood)]
    /\ spaces = createSpaces(NumSpaces)
    /\ events = << >>
    /\ cursor = 0
    /\ last = [op |-> "new", worker |-> 0, log |-> {}, event |-> Null]
    /\ dialogs = << >>
    /\ clock = NoClock

\* one call of findDeskForWorker
FindDeskForWorker ==
    /\ \E i \in Indices(workers) :
          \E m \in findDeskForWorker(Registries, i) :
              /\ Install(m, "findDeskForWorker", i)
              /\ dialogs' \in Spoken(m, i, workers[i])
    /\ UNCHANGED <<currentTime, cursor, clock>>

NextFindDesk == FindDeskForWorker

SpecFindDesk == InitFindDesk /\ [][NextFindDesk]_vars

----------------------------------------------------------------------------
\* One day in an office whose only meeting space is wanted by two
\* events back to back: one ends at 25000, the other starts at 25100.  The
\* time points lie before the first start, inside the second event's
\* departure window while the first event is still on, inside that window
\* once the first event is over, and after every event.

BackToBackStarts == {5000, 25100}
BackToBackTimes == {4950, 24950, 25050, 55000}

InitBackToBack ==
    /\ currentTime = 0
    /\ cursor = 0
    /\ \E start \in [1..NumEvents -> BackToBackStarts],
          picksOf \in [1..2 -> EventPicks],
          managed \in BOOLEAN :
          \E m \in { initializeOffice(
                        [isManaged |-> managed, desks |-> createDesks(MaxDesks),
                         spaces |-> createSpaces(1), events |-> << >>,
                         workers |-> << >>, log |-> {}, event |-> Null],
                        2, start, picksOf) } :
              /\ isManaged = m.isManaged
              /\ desks = m.desks
              /\ spaces = m.spaces
              /\ events = m.events
              /\ workers = m.workers
              /\ last = [op |-> "initializeOffice", worker |-> 0,
                         log |-> {}, event |-> Null]
              /\ dialogs = << >>
              /\ clock = NoClock

NextBackToBack == SetCurrentTimeAt(BackToBackTimes) \/ UpdateWorkers

SpecBackToBack == InitBackToBack /\ [][NextBackToBack]_vars

----------------------------------------------------------------------------
\* The dialogs of a chaotic office of one desk and two workers, from
\* initializeOffice(2) on, over several days.  As Simulation drives the
\* manager, resetDay() runs with the time of the frame before (rollover in
\* animate, and reset()), and only then does the time start again from the
\* beginning of the day.

InitDialog ==
    /\ currentTime = 0
    /\ cursor = 0
    /\ \E start \in [1..NumEvents -> StartTimes],
          picksOf \in [1..2 -> EventPicks] :
          \E m \in { initializeOffice(
                        [isManaged |-> FALSE, desks |-> createDesks(1),
                         spaces |-> createSpaces(NumSpaces), events |-> << >>,
                         workers |-> << >>, log |-> {}, event |-> Null],
                        2, start, picksOf) } :
              /\ isManaged = m.isManaged
              /\ desks = m.desks
              /\ spaces = m.spaces
              /\ events = m.events
              /\ workers = m.workers
              /\ last = [op |-> "initializeOffice", worker |-> 0,
                         log |-> {}, event |-> Null]
              /\ dialogs = [i \in 1..2 |-> <<0, HelloDuration>>]
              /\ clock = NoClock

\* the time of the next frame: later in the day, or anywhere in the new day
\* after resetDay
NextFrame ==
    SetCurrentTimeAt({time \in TimePoints :
                        time > currentTime \/ last.op = "resetDay"})

NextDialog == NextFrame \/ ResetDay \/ UpdateWorkers

SpecDialog == InitDialog /\ [][NextDialog]_vars

----------------------------------------------------------------------------
\* handleWorkerArrival applied to workers that have come to the end of
\* their way to a desk or to a space: in a new office, at any time of the
\* day, at the point of a desk, at the point of a space or anywhere else.

InitArrival ==
    /\ isManaged \in BOOLEAN
    /\ currentTime \in TimePoints
    /\ cursor = 0
    /\ \E numDesks \in 1..MaxDesks,
          start \in [1..NumEvents -> StartTimes],
          picksOf \in [1..MaxWorkers -> EventPicks],
          state \in {"MOVING_TO_DESK", "MOVING_TO_SPACE"},
          location \in {<<"desk", 1>>, <<"space", 1>>, RandomPoint} :
          \E m \in { initializeOffice(
                        [isManaged |-> isManaged, desks |-> createDesks(numDesks),
                         spaces |-> createSpaces(NumSpaces), events |-> << >>,
                         workers |-> << >>, log |-> {}, event |-> Null],
                        MaxWorkers, start, picksOf) } :
              /\ desks = m.desks
              /\ spaces = m.spaces
              /\ events = m.events
              /\ workers = [i \in Indices(m.workers) |->
                                [m.workers[i] EXCEPT
                                    !.physicalState = state,
                                    !.location = location,
                                    !.destinationLocation = NoPoint]]
    /\ last = [op |-> "initializeOffice", worker |-> 0, log |-> {},
               event |-> Null]
    /\ dialogs = << >>
    /\ clock = NoClock

\* one call of handleWorkerArrival, for a worker that has just lost its
\* destination by reaching it
HandleWorkerArrival ==
    /\ \E i \in Indices(workers) :
          /\ workers[i].destinationLocation = NoPoint
          /\ \E m \in handleWorkerArrival(Registries, i) :
                /\ Install(m, "handleWorkerArrival", i)
                /\ dialogs' \in Spoken(m, i, workers[i])
    /\ UNCHANGED <<currentTime, cursor, clock>>

NextArrival == HandleWorkerArrival

SpecArrival == InitArrival /\ [][NextArrival]_vars

----------------------------------------------------------------------------
\* The manager under its public commands in any order, setManagedMode on
\* its own included, in an office of one desk.

InitCommands ==
    /\ isManaged = FALSE
    /\ currentTime = 0
    /\ desks = createDesks(1)
    /\ spaces = createSpaces(NumSpaces)
    /\ events = << >>
    /\ workers = << >>
    /\ cursor = 0
    /\ last = [op |-> "new", worker |-> 0, log |-> {}, event |-> Null]
    /\ dialogs = << >>
    /\ clock = NoClock

NextCommands ==
    \/ SetManagedMode
    \/ SetCurrentTime
    \/ InitializeOffice
    \/ ResetDay
    \/ UpdateWorkers

SpecCommands == InitCommands /\ [][NextCommands]_vars

----------------------------------------------------------------------------
\* Several days in a chaotic office of one desk and two workers, from
\* initializeOffice(2) on, as Simulation runs them: frames follow one
\* another for ever, resetDay() starts every new day, and a worker that
\* moves towards a destination gets there.

NextDays == NextFrame \/ ResetDay \/ UpdateWorkers

SpecDays ==
    /\ InitOneDesk
    /\ [][NextDays]_vars
    /\ WF_vars(UpdateWorkers)
    /\ \A i \in 1..2 : SF_vars(Arrive(i))

----------------------------------------------------------------------------
\* A day of workers with several events each: assignEventsToWorker draws up
\* to MaxWorkerEvents + 1 events for a worker, and the events are far
\* enough apart for a worker to be back at work between two of them.  The
\* time points lie just before the first start, inside the first event,
\* just before the second start, inside the second event and after both.

LaterStarts == {5000, 30000}
LaterTimes == {4950, 14950, 29950, 35000, 55000}

LongerPicks ==
    UNION { [1..n -> 1..NumEvents] : n \in 1..(MaxWorkerEvents + 1) }

InitSeveralEvents ==
    /\ currentTime = 0
    /\ cursor = 0
    /\ \E start \in [1..NumEvents -> LaterStarts],
          picksOf \in [1..2 -> LongerPicks] :
          \E m \in { initializeOffice(
                        [isManaged |-> FALSE, desks |-> createDesks(MaxDesks),
                         spaces |-> createSpaces(NumSpaces),
                         events |-> << >>, workers |-> << >>,
                         log |-> {}, event |-> Null],
                        2, start, picksOf) } :
              /\ isManaged = m.isManaged
              /\ desks = m.desks
              /\ spaces = m.spaces
              /\ events = m.events
              /\ workers = m.workers
              /\ last = [op |-> "initializeOffice", worker |-> 0,
                         log |-> {}, event |-> Null]
              /\ dialogs = << >>
              /\ clock = NoClock

NextSeveralEvents ==
    \/ SetCurrentTimeAt({time \in LaterTimes : time > currentTime})
    \/ UpdateWorkers

SpecSeveralEvents == InitSeveralEvents /\ [][NextSeveralEvents]_vars

----------------------------------------------------------------------------
\* A chaotic office of one desk, one space and two workers, with the events
\* and time points of the back-to-back day: the desk and the space are each
\* taken by one worker while the other looks for them.

InitCramped ==
    /\ currentTime = 0
    /\ cursor = 0
    /\ \E start \in [1..NumEvents -> BackToBackStarts],
          picksOf \in [1..2 -> EventPicks] :
          \E m \in { initializeOffice(
                        [isManaged |-> FALSE, desks |-> createDesks(1),
                         spaces |-> createSpaces(1), events |-> << >>,
                         workers |-> << >>, log |-> {}, event |-> Null],
                        2, start, picksOf) } :
              /\ isManaged = m.isManaged
              /\ desks = m.desks
              /\ spaces = m.spaces
              /\ events = m.events
              /\ workers = m.workers
              /\ last = [op |-> "initializeOffice", worker |-> 0,
                         log |-> {}, event |-> Null]
              /\ dialogs = << >>
              /\ clock = NoClock

SpecCramped == InitCramped /\ [][NextBackToBack]_vars

----------------------------------------------------------------------------
\* The departure window at its edges, in a chaotic office of one desk and
\* two workers whose events all start at 5000.  One simulated minute is
\* 60000 / 540 = 111.1 ms: the time points lie just outside and just inside
\* ten minutes before the start (1112 and 1111 ms), just outside and just
\* inside one minute before it (112 and 111 ms), at the start and after it.

WindowStarts == {5000}
WindowTimes == {3888, 3889, 4888, 4889, 5000, 5050}

InitWindow ==
    /\ currentTime = 0
    /\ cursor = 0
    /\ \E start \in [1..NumEvents -> WindowStarts],
          picksOf \in [1..2 -> EventPicks] :
          \E m \in { initializeOffice(
                        [isManaged |-> FALSE, desks |-> createDesks(1),
                         spaces |-> createSpaces(NumSpaces),
                         events |-> << >>, workers |-> << >>,
                         log |-> {}, event |-> Null],
                        2, start, picksOf) } :
              /\ isManaged = m.isManaged
              /\ desks = m.desks
              /\ spaces = m.spaces
              /\ events = m.events
              /\ workers = m.workers
              /\ last = [op |-> "initializeOffice", worker |-> 0,
                         log |-> {}, event |-> Null]
              /\ dialogs = << >>
              /\ clock = NoClock

NextWindow ==
    \/ SetCurrentTimeAt({time \in WindowTimes : time > currentTime})
    \/ UpdateWorkers

SpecWindow == InitWindow /\ [][NextWindow]_vars

----------------------------------------------------------------------------
\* Simulation's animation loop over a chaotic office of one desk and two
\* workers, from `new Simulation` and start() on.  A frame comes with the
\* time elapsed since the loop started (deltaTime); frames may be far
\* apart, as requestAnimationFrame is not served while the page is hidden.
\* The frame times lie inside the first day, at its very end, inside the
\* second day and inside the third.

DayDurationMs == 60000
StartingDay == 1

FrameTimes == {4950, 29950, 60000, 64950, 125000}

deltaTime == clock[1]
dayCount == clock[2]
resetDayCalls == clock[3]

InitSimulation ==
    /\ currentTime = 0
    /\ cursor = 0
    /\ \E start \in [1..NumEvents -> StartTimes],
          picksOf \in [1..2 -> EventPicks] :
          \E m \in { initializeOffice(
                        [isManaged |-> FALSE, desks |-> createDesks(1),
                         spaces |-> createSpaces(NumSpaces),
                         events |-> << >>, workers |-> << >>,
                         log |-> {}, event |-> Null],
                        2, start, picksOf) } :
              /\ isManaged = m.isManaged
              /\ desks = m.desks
              /\ spaces = m.spaces
              /\ events = m.events
              /\ workers = m.workers
              /\ last = [op |-> "initializeOffice", worker |-> 0,
                         log |-> {}, event |-> Null]
              /\ dialogs = << >>
    /\ clock = <<0, StartingDay, 0>>

\* animate, up to the call of updateWorkers: the frame's time of day, the
\* new day if one is due, and setCurrentTime
Animate ==
    /\ cursor = 0
    /\ last.op \in {"initializeOffice", "updateWorkers"}
    /\ \E frame \in FrameTimes :
          /\ frame > deltaTime
          /\ currentTime' = frame % DayDurationMs
          /\ IF frame > dayCount * DayDurationMs
             THEN /\ clock' = <<frame, dayCount + 1, resetDayCalls + 1>>
                  /\ \E start \in [1..NumEvents -> StartTimes],
                        picksOf \in [1..MaxWorkers -> EventPicks] :
                        \E m \in { resetDay(Registries, start, picksOf) } :
                            Install(m, "animate", 0)
             ELSE /\ clock' = <<frame, dayCount, resetDayCalls>>
                  /\ Install(Registries, "animate", 0)
    /\ UNCHANGED <<cursor, dialogs>>

\* animate's call of updateWorkers, worker by worker
AnimateWorkers ==
    /\ last.op = "animate" \/ cursor # 0
    /\ UpdateWorkers

\* the frame is over: updateWorkers has returned
FrameOver == cursor = 0 /\ last.op = "updateWorkers"

NextSimulation == Animate \/ AnimateWorkers

SpecSimulation == InitSimulation /\ [][NextSimulation]_vars

----------------------------------------------------------------------------
\* The first ticks of several days of workers with several events each:
\* initializeOffice, then ticks and calls of resetDay at the start of the
\* day.

MaxEventsPerWorker == 3

NextNewDay == ResetDayWith(LaterStarts, LongerPicks) \/ UpdateWorkers

SpecNewDay == InitSeveralEvents /\ [][NextNewDay]_vars

----------------------------------------------------------------------------
\* Properties

\* the step taken last was the step of updateWorkers for worker i and went
\* through the handler branch tag
Stepped(i, tag) ==
    /\ last.op = "updateWorkers"
    /\ last.worker = i
    /\ tag \in last.log

\* C1: at every moment of a run no two distinct workers have the same desk
\* as their currentOccupiedDeskId.
DeskExclusive ==
    \A i, j \in Indices(workers) :
        (i # j /\ workers[i].currentOccupiedDeskId # Null)
            => workers[i].currentOccupiedDeskId # workers[j].currentOccupiedDeskId

\* C1, the case: a worker has just arrived at a desk that another worker
\* occupies, and was turned away
DeskExclusiveWitness ==
    \E i, j \in Indices(workers) :
        /\ i # j
        /\ Stepped(i, "deskTaken")
        /\ workers[i].location = <<"desk", workers[j].currentOccupiedDeskId>>
        /\ workers[j].physicalState = "WORKING"
        /\ workers[i].currentOccupiedDeskId = Null

\* updateWorkerState, line 1971: the event a worker is attending
CurrentEvent(i) == getNextEvent(Registries, i)

\* the workers inside space s whose current event is bound to s
AttendeesBoundTo(s) ==
    { i \in Indices(workers) :
        /\ workers[i].currentOccupiedSpaceId = s
        /\ CurrentEvent(i) # Null
        /\ events[CurrentEvent(i)].spaceId = s }

\* C2: at every tick a space is OCCUPIED if and only if at least one worker
\* has it as currentOccupiedSpaceId and that worker's current event is bound
\* to the space.
SharedSpaceCorrect ==
    cursor = 0 =>
        \A s \in Indices(spaces) :
            spaces[s].state = "OCCUPIED" <=> AttendeesBoundTo(s) # {}

\* C3: when worker a has claimed space s for event e and is still
\* ATTENDING_EVENT, another invitee b of e that arrives at s in
\* MOVING_TO_SPACE with e as its qualifying event becomes ATTENDING_EVENT
\* with currentOccupiedSpaceId = s, and is not handled as a collision.
InviteeJoins ==
    [][ \A a, b \in Indices(workers) :
          LET s == workers[a].currentOccupiedSpaceId
              e == CurrentEvent(a)
          IN  ( /\ a # b
                /\ workers[a].physicalState = "ATTENDING_EVENT"
                /\ s # Null
                /\ spaces[s].state = "OCCUPIED"
                /\ e # Null
                /\ events[e].spaceId = s
                /\ \E k \in 1..Len(events[e].attendeeIds) :
                       events[e].attendeeIds[k] = b
                /\ workers[b].physicalState = "MOVING_TO_SPACE"
                /\ workers[b].destinationLocation = <<"space", s>>
                /\ last'.op = "updateWorkers"
                /\ last'.worker = b
                /\ "arrived" \in last'.log
                /\ last'.event = e )
              => ( /\ workers'[b].physicalState = "ATTENDING_EVENT"
                   /\ workers'[b].currentOccupiedSpaceId = s
                   /\ "spaceCollision" \notin last'.log ) ]_vars

\* the workers other than i that are ATTENDING_EVENT in space s, in the
\* registry ws
OthersAttending(ws, i, s) ==
    { x \in Indices(ws) :
        /\ x # i
        /\ ws[x].physicalState = "ATTENDING_EVENT"
        /\ ws[x].currentOccupiedSpaceId = s }

\* C4: when a worker's event ends and it leaves space s, s is set to
\* AVAILABLE only if no other worker is still attending in s (still: it is
\* ATTENDING_EVENT in s and its own event is not over); while such an
\* attendee remains, s stays OCCUPIED.
SpaceFreedOnlyWhenEmpty ==
    [][ \A i \in Indices(workers) :
          LET s == workers[i].currentOccupiedSpaceId
          IN  ( /\ s # Null
                /\ last'.op = "updateWorkers"
                /\ last'.worker = i
                /\ "eventEnded" \in last'.log
                /\ \E x \in OthersAttending(workers', i, s) :
                       ~eventOver(Registries, x) )
              => spaces'[s].state = "OCCUPIED" ]_vars

\* C5: when the event of worker i has ended (currentTime > endTime) and i
\* is the only worker attending in space s, the step of updateWorkers for i
\* takes i out of ATTENDING_EVENT and makes s AVAILABLE.
SoleAttendeeLeaves ==
    [][ \A i \in Indices(workers) :
          LET s == workers[i].currentOccupiedSpaceId
              e == CurrentEvent(i)
          IN  ( /\ workers[i].physicalState = "ATTENDING_EVENT"
                /\ s # Null
                /\ e # Null
                /\ currentTime > events[e].endTime
                /\ OthersAttending(workers, i, s) = {}
                /\ last'.op = "updateWorkers"
                /\ last'.worker = i )
              => ( /\ workers'[i].physicalState # "ATTENDING_EVENT"
                   /\ spaces'[s].state = "AVAILABLE" ) ]_vars

\* C5, the case: a worker that was alone in its space has just left it, its
\* event over
SoleAttendeeLeavesWitness ==
    \E i \in Indices(workers) :
        LET s == workers[i].lastOccupiedSpaceId
        IN  /\ Stepped(i, "eventEnded")
            /\ s # Null
            /\ workers[i].currentOccupiedSpaceId = Null
            /\ currentTime > events[CurrentEvent(i)].endTime
            /\ OthersAttending(workers, i, s) = {}
            /\ spaces[s].state = "AVAILABLE"

\* C8: in managed mode resetDay leaves every worker's assignedDeskId as it
\* was, whatever ticks and resetDay calls went before.
AssignmentKept ==
    [][ (last'.op = "resetDay" /\ isManaged)
          => /\ Len(workers') = Len(workers)
             /\ \A i \in Indices(workers) :
                    workers'[i].assignedDeskId = workers[i].assignedDeskId ]_vars

\* C8, the case: resetDay has just run in managed mode, after a day in
\* which a worker with an assigned desk left that desk
AssignmentKeptWitness ==
    /\ last.op = "resetDay"
    /\ isManaged
    /\ \E i \in Indices(workers) :
          /\ workers[i].assignedDeskId # Null
          /\ desks[workers[i].assignedDeskId].occupiedBy = Null

\* C9: in managed mode, after any resetDay, every desk that is some
\* worker's assignedDeskId is ASSIGNED, with occupiedBy naming a worker it
\* is assigned to.
AssignedDesksRestored ==
    (last.op = "resetDay" /\ isManaged) =>
        \A d \in Indices(desks) :
            (\E i \in Indices(workers) : workers[i].assignedDeskId = d)
                => /\ desks[d].state = "ASSIGNED"
                   /\ desks[d].occupiedBy # Null
                   /\ workers[desks[d].occupiedBy].assignedDeskId = d

\* C10: whenever a step brings a worker's deskSearchAttempts to 3, the
\* worker's mood at the end of that step is FRUSTRATED (so not HAPPY).
FrustratedAtLimit ==
    [][ \A i \in Indices(workers) \cap Indices(workers') :
          ( /\ workers[i].deskSearchAttempts < FrustrationLimit
            /\ workers'[i].deskSearchAttempts = FrustrationLimit )
              => workers'[i].mentalState = "FRUSTRATED" ]_vars

\* C10, the case: a failed desk search has just brought the counter to 3
FrustratedAtLimitWitness ==
    \E i \in Indices(workers) :
        /\ Stepped(i, "noDesk")
        /\ workers[i].deskSearchAttempts = FrustrationLimit
        /\ workers[i].mentalState = "FRUSTRATED"

\* C7: in managed mode, when worker i has an assigned desk d, fewer than 3
\* failed searches, and d is among the desks to choose from (AVAILABLE, or
\* ASSIGNED to i), findDeskForWorker sends i to d and to no other desk.
AssignedDeskChosen ==
    [][ \A i \in Indices(workers) :
          LET d == workers[i].assignedDeskId
          IN  ( /\ last'.op = "findDeskForWorker"
                /\ last'.worker = i
                /\ isManaged
                /\ d # Null
                /\ workers[i].deskSearchAttempts < FrustrationLimit
                /\ d \in AvailableDesksFor(Registries, i) )
              => ( /\ workers'[i].destinationLocation = <<"desk", d>>
                   /\ workers'[i].physicalState = "MOVING_TO_DESK" ) ]_vars

\* C7, the case: findDeskForWorker has just sent a worker to its assigned
\* desk although another desk was there to choose
AssignedDeskChosenWitness ==
    \E i \in Indices(workers) :
        LET d == workers[i].assignedDeskId
        IN  /\ last.op = "findDeskForWorker"
            /\ last.worker = i
            /\ "deskChosen" \in last.log
            /\ isManaged
            /\ d # Null
            /\ workers[i].destinationLocation = <<"desk", d>>
            /\ \E other \in AvailableDesksFor(Registries, i) : other # d

\* worker i is or has been WORKING at a desk today
HasWorked(i) ==
    \/ workers[i].physicalState = "WORKING"
    \/ workers[i].lastOccupiedDeskId # Null

\* C6, as claimed: with 1 desk and 2 workers in chaotic mode, both ARRIVING
\* at first, one worker gets to work at the desk and the other is never
\* WORKING: at no time have both workers been WORKING.
OnlyOneEverWorks ==
    ~ \E i, j \in Indices(workers) : i # j /\ HasWorked(i) /\ HasWorked(j)

\* C6, amended: eventually a worker is WORKING at the desk; never are both
\* WORKING; and a worker whose arrival (at the desk, or at the end of its
\* way in) happens while the other is WORKING at the desk ends that step
\* WANDERING with mood CONFUSED or FRUSTRATED.
OneDeskOutcome ==
    /\ <>(\E i \in Indices(workers) :
              /\ workers[i].physicalState = "WORKING"
              /\ workers[i].currentOccupiedDeskId = 1)
    /\ [](Cardinality({ i \in Indices(workers) :
                            workers[i].physicalState = "WORKING" }) <= 1)
    /\ [][ \A i, j \in Indices(workers) :
              ( /\ i # j
                /\ workers[j].physicalState = "WORKING"
                /\ workers[j].currentOccupiedDeskId = 1
                /\ workers[i].physicalState \in {"ARRIVING", "MOVING_TO_DESK"}
                /\ last'.op = "updateWorkers"
                /\ last'.worker = i
                /\ "arrived" \in last'.log )
              => ( /\ workers'[i].physicalState = "WANDERING"
                   /\ workers'[i].mentalState \in {"CONFUSED", "FRUSTRATED"} )
       ]_vars

\* C6, the case: one worker is WORKING at the desk and the other has just
\* arrived there and been sent wandering
OneDeskOutcomeWitness ==
    \E i, j \in Indices(workers) :
        /\ i # j
        /\ Len(desks) = 1
        /\ workers[j].physicalState = "WORKING"
        /\ workers[j].currentOccupiedDeskId = 1
        /\ Stepped(i, "deskTaken")
        /\ workers[i].physicalState = "WANDERING"
        /\ workers[i].mentalState \in {"CONFUSED", "FRUSTRATED"}

\* C11: at every tick every worker's deskSearchAttempts is between 0 and 3.
RetryCounterBounded ==
    cursor = 0 =>
        \A i \in Indices(workers) :
            workers[i].deskSearchAttempts \in 0..FrustrationLimit


\* the number of desks in a state
DeskCount(state) ==
    Cardinality({d \in Indices(desks) : desks[d].state = state})

\* C12: no resetDay and no tick changes the set of desks; every desk is in
\* exactly one of AVAILABLE, ASSIGNED and OCCUPIED, and the three counts sum
\* to the number of desks.
DesksConserved ==
    /\ [](/\ \A d \in Indices(desks) :
              desks[d].state \in {"AVAILABLE", "ASSIGNED", "OCCUPIED"}
          /\ DeskCount("AVAILABLE") + DeskCount("ASSIGNED")
                + DeskCount("OCCUPIED") = Len(desks))
    /\ [][last'.op \in {"resetDay", "updateWorkers"}
            => Indices(desks') = Indices(desks)]_vars

\* C12, the case: a resetDay has just run on an office part of whose desks
\* were in use, and left desks in different states
DesksConservedWitness ==
    /\ last.op = "resetDay"
    /\ Len(desks) = MaxDesks
    /\ DeskCount("ASSIGNED") > 0
    /\ DeskCount("AVAILABLE") > 0


\* the simulated time that has passed at least since a dialog of the given
\* start time was set: a start time later than the current time is from
\* before the day began
ElapsedSince(startTime) ==
    IF currentTime >= startTime THEN currentTime - startTime
    ELSE currentTime

\* C13: once more than its duration of simulated time has passed since a
\* dialog was set, the worker does not have it any more at the end of a
\* tick, the dialogs that resetDay sets at a day rollover included.
DialogsExpire ==
    (cursor = 0 /\ last.op = "updateWorkers") =>
        \A i \in DOMAIN dialogs :
            dialogs[i] # NoDialog
                => ElapsedSince(dialogs[i][1]) <= dialogs[i][2]


\* the events worker i is invited to, and the workers event e has as
\* attendees
InvitedTo(i) ==
    {workers[i].workerEventIds[k] : k \in Indices(workers[i].workerEventIds)}

AttendeesOf(e) ==
    {events[e].attendeeIds[k] : k \in Indices(events[e].attendeeIds)}

\* C14: immediately after resetDay every worker is ARRIVING and HAPPY with
\* retry counter 0 and no current or last desk or space, every space is
\* AVAILABLE, and the events are new: every worker has a list of events of
\* the new registry, whose attendees are exactly the workers that list them.
FreshDay ==
    last.op = "resetDay" =>
        /\ \A i \in Indices(workers) :
              /\ workers[i].physicalState = "ARRIVING"
              /\ workers[i].mentalState = "HAPPY"
              /\ workers[i].deskSearchAttempts = 0
              /\ workers[i].currentOccupiedDeskId = Null
              /\ workers[i].lastOccupiedDeskId = Null
              /\ workers[i].currentOccupiedSpaceId = Null
              /\ workers[i].lastOccupiedSpaceId = Null
              /\ InvitedTo(i) # {}
              /\ InvitedTo(i) \subseteq Indices(events)
        /\ \A s \in Indices(spaces) : spaces[s].state = "AVAILABLE"
        /\ \A e \in Indices(events) :
              /\ AttendeesOf(e) = {i \in Indices(workers) : e \in InvitedTo(i)}
              /\ events[e].endTime = events[e].startTime + EventDurationMs

\* C14, the case: resetDay has just run late in a day in which a worker of
\* a managed office had left its desk
FreshDayWitness ==
    /\ last.op = "resetDay"
    /\ currentTime = 55000
    /\ isManaged
    /\ \E d \in Indices(desks) : desks[d].state = "AVAILABLE"


\* in the running call of updateWorkers the worker handled last is i, and
\* the step taken now is that of the next worker, which arrives
ArrivesNext(i) ==
    /\ cursor = i
    /\ last.op = "updateWorkers"
    /\ last.worker = i
    /\ last'.op = "updateWorkers"
    /\ last'.worker = i + 1
    /\ "arrived" \in last'.log

\* C15: of two workers that arrive in the same tick at the same AVAILABLE
\* desk, the earlier in the workers array claims it and is WORKING and the
\* later is handled as finding the desk occupied; of two workers that
\* arrive in the same tick at the same AVAILABLE space for different events,
\* the earlier claims it and the later is handled as finding it occupied.
ArrivalOrder ==
    [][\A i \in Indices(workers) :
          ArrivesNext(i) =>
            LET j == i + 1
                d == workers[i].currentOccupiedDeskId
                s == workers[i].currentOccupiedSpaceId
            IN  /\ ( /\ "deskClaimed" \in last.log
                     /\ desks[d].state = "OCCUPIED"
                     /\ workers[j].physicalState = "MOVING_TO_DESK"
                     /\ workers[j].destinationLocation = <<"desk", d>> )
                   => ( /\ "deskTaken" \in last'.log
                        /\ workers'[i].physicalState = "WORKING"
                        /\ workers'[i].currentOccupiedDeskId = d
                        /\ workers'[j].currentOccupiedDeskId # d )
                /\ ( /\ "spaceClaimed" \in last.log
                     /\ workers[j].physicalState = "MOVING_TO_SPACE"
                     /\ workers[j].destinationLocation = <<"space", s>>
                     /\ last'.event \notin {Null, last.event} )
                   => ( /\ "spaceCollision" \in last'.log
                        /\ workers'[j].currentOccupiedSpaceId # s )]_vars


\* C16: a tick on a worker that is ARRIVING, MOVING_TO_DESK or
\* MOVING_TO_SPACE and does not reach its destination leaves the worker's
\* physicalState, mentalState, retry counter and destination as they were
\* and changes no desk, space or event.
MovingUntouched ==
    [][\A i \in Indices(workers) :
          ( /\ last'.op = "updateWorkers"
            /\ last'.worker = i
            /\ workers[i].physicalState
                    \in {"ARRIVING", "MOVING_TO_DESK", "MOVING_TO_SPACE"}
            /\ "arrived" \notin last'.log )
          => ( /\ workers'[i].physicalState = workers[i].physicalState
               /\ workers'[i].mentalState = workers[i].mentalState
               /\ workers'[i].deskSearchAttempts = workers[i].deskSearchAttempts
               /\ workers'[i].destinationLocation = workers[i].destinationLocation
               /\ desks' = desks
               /\ spaces' = spaces
               /\ events' = events )]_vars

\* C16, the case: the step taken last moved a worker that is on its way to
\* a space, and the worker is not there yet
MovingUntouchedWitness ==
    \E i \in Indices(workers) :
        /\ last.op = "updateWorkers"
        /\ last.worker = i
        /\ last.log = {}
        /\ workers[i].physicalState = "MOVING_TO_SPACE"
        /\ workers[i].location = RandomPoint
        /\ workers[i].destinationLocation # NoPoint


\* C17: a worker that arrives in MOVING_TO_DESK where there is no desk, or
\* in MOVING_TO_SPACE with no qualifying event or where there is no space,
\* becomes WANDERING with a new destination that is not null, and no desk
\* and no space changes state.
LostWorkerWanders ==
    [][\A i \in Indices(workers) :
          ( /\ last'.op = "handleWorkerArrival"
            /\ last'.worker = i
            /\ \/ /\ workers[i].physicalState = "MOVING_TO_DESK"
                  /\ findDeskAtLocation(Registries, workers[i].location) = Null
               \/ /\ workers[i].physicalState = "MOVING_TO_SPACE"
                  /\ \/ last'.event = Null
                     \/ findSpaceAtLocation(Registries, workers[i].location)
                            = Null )
          => ( /\ workers'[i].physicalState = "WANDERING"
               /\ workers'[i].destinationLocation # NoPoint
               /\ \A d \in Indices(desks) : desks'[d].state = desks[d].state
               /\ \A s \in Indices(spaces) :
                     spaces'[s].state = spaces[s].state )]_vars

\* C17, the case: a worker has just arrived in MOVING_TO_DESK where there
\* is no desk
LostWorkerWandersWitness ==
    /\ last.op = "handleWorkerArrival"
    /\ "lostDesk" \in last.log


\* C18: a desk's occupiedBy is not null exactly when the desk is ASSIGNED
\* or OCCUPIED, a reserved desk whose worker is away included.
OccupantMatchesState ==
    \A d \in Indices(desks) :
        desks[d].occupiedBy # Null
            <=> desks[d].state \in {"ASSIGNED", "OCCUPIED"}


\* C19: whenever the office is chaotic no desk is ASSIGNED and no worker
\* has an assigned desk, whatever public commands (setManagedMode,
\* initializeOffice, resetDay, updateWorkers) led there.
ChaoticHasNoAssignment ==
    ~isManaged =>
        /\ \A d \in Indices(desks) : desks[d].state # "ASSIGNED"
        /\ \A i \in Indices(workers) : workers[i].assignedDeskId = Null


\* C20: a worker that has acquired a desk (become WORKING) or a space
\* (become ATTENDING_EVENT, by claiming the space or by joining) in a step
\* is HAPPY at the end of that step.
HappyOnAcquire ==
    \A i \in Indices(workers) :
        ( \/ Stepped(i, "deskClaimed")
          \/ Stepped(i, "spaceClaimed")
          \/ Stepped(i, "spaceJoined") )
        => workers[i].mentalState = "HAPPY"


\* the step taken last was worker i's, it searched for a space when none
\* was AVAILABLE, and that search was the last the step did to the worker:
\* the worker did not go on, in the same step, to roll its mood or to retry
\* as a wanderer, or to reach a destination
SearchedInVain(i) ==
    /\ Stepped(i, "noSpace")
    /\ last.log \cap {"moodRoll", "retry"} = {}
    /\ "arrived" \in last.log => "spaceCollision" \in last.log

UnstartedOf(i) ==
    {events[e].startTime : e \in {x \in InvitedTo(i) :
                                    events[x].startTime > currentTime}}

\* C22: at the end of every tick each worker's nextEventTime is the start
\* time of the earliest event of its list that has not started yet, or null
\* when its list has no such event.
NextEventTimeCurrent ==
    (cursor = 0 /\ last.op = "updateWorkers") =>
        \A i \in Indices(workers) :
            IF UnstartedOf(i) = {}
            THEN workers[i].nextEventTime = Null
            ELSE /\ workers[i].nextEventTime \in UnstartedOf(i)
                 /\ \A t \in UnstartedOf(i) : workers[i].nextEventTime <= t


\* C23: in managed mode a worker whose event has ended and that had left
\* its own assigned desk D for it is directed back to D; D has stayed
\* reserved, and the worker gets the stolen-desk outcome only if another
\* worker occupies D.
ReturnsToAssignedDesk ==
    \A i \in Indices(workers) :
        LET w == workers[i]
            D == w.assignedDeskId
        IN  ( /\ isManaged
              /\ Stepped(i, "eventEnded")
              /\ D # Null
              /\ w.lastOccupiedDeskId = D
              /\ \A j \in Indices(workers) \ {i} :
                    workers[j].currentOccupiedDeskId # D )
            => ( /\ "stolenDesk" \notin last.log
                 /\ desks[D].state = "ASSIGNED"
                 /\ \/ /\ w.physicalState = "MOVING_TO_DESK"
                       /\ w.destinationLocation = <<"desk", D>>
                    \/ /\ w.physicalState = "WORKING"
                       /\ w.currentOccupiedDeskId = D )


\* C24: under continued ticking every worker that is ARRIVING, after
\* initializeOffice and after every resetDay, eventually is MOVING_TO_DESK
\* or WANDERING.
ArrivingLeaves ==
    \A i \in 1..2 :
        (workers[i].physicalState = "ARRIVING")
            ~> (workers[i].physicalState \in {"MOVING_TO_DESK", "WANDERING"})


\* the events of the worker's list that have not started yet
Unstarted(i) ==
    { e \in InvitedTo(i) : events[e].startTime > currentTime }

\* the earliest of them starts within the shortest departure window
Imminent(i) ==
    \E e \in Unstarted(i) :
        /\ \A x \in Unstarted(i) : events[e].startTime <= events[x].startTime
        /\ \A window \in getRandomPreEventTime :
              WithinWindow(events[e].startTime - currentTime, window)

\* C25: a tick on a worker that is WORKING or WANDERING while the earliest
\* event of its list that has not started yet is imminent makes the worker
\* depart for an event, also when an earlier event of its list is over.
DepartsForNextEvent ==
    [][\A i \in Indices(workers) :
          ( /\ last'.op = "updateWorkers"
            /\ last'.worker = i
            /\ workers[i].physicalState \in {"WORKING", "WANDERING"}
            /\ Imminent(i) )
          => "departed" \in last'.log]_vars


\* some event of the worker's list spans the current time
Spans(i) ==
    \E e \in InvitedTo(i) :
        events[e].startTime <= currentTime /\ currentTime <= events[e].endTime

\* C26: a tick on a worker that is ATTENDING_EVENT leaves it ATTENDING_EVENT
\* if some event of its list spans currentTime, and ends its attendance if
\* none does.
AttendsWhileSpanned ==
    [][\A i \in Indices(workers) :
          ( /\ last'.op = "updateWorkers"
            /\ last'.worker = i
            /\ workers[i].physicalState = "ATTENDING_EVENT" )
          => ( workers'[i].physicalState = "ATTENDING_EVENT" <=> Spans(i) )]_vars


\* the spaces in which another invitee of event e sits, attending
SeatsOfFellows(i, e) ==
    { workers[a].currentOccupiedSpaceId :
        a \in { x \in AttendeesOf(e) \ {i} :
                   /\ workers[x].physicalState = "ATTENDING_EVENT"
                   /\ workers[x].currentOccupiedSpaceId # Null } }

\* C27: a worker that departs for event E while a fellow invitee of E is
\* ATTENDING_EVENT in a space is directed to that space, whether or not any
\* space is AVAILABLE.
JoinsFellowAttendee ==
    [][\A i \in Indices(workers) :
          ( /\ last'.op = "updateWorkers"
            /\ last'.worker = i
            /\ "departed" \in last'.log
            /\ "arrived" \notin last'.log
            /\ SeatsOfFellows(i, CurrentEvent(i)) # {} )
          => ( /\ workers'[i].physicalState = "MOVING_TO_SPACE"
               /\ workers'[i].destinationLocation \in
                      { <<"space", s>> : s \in SeatsOfFellows(i, CurrentEvent(i)) }
             )]_vars


\* C28: on a day that no tick has touched yet, when no worker can have
\* claimed a space, findEventBySpace returns no event for any space.
UnclaimedEventUnbound ==
    DayFresh =>
        \A s \in Indices(spaces) : findEventBySpace(Registries, s) = Null


\* C29: a worker that the desk-arrival handler has just made WORKING has a
\* retry counter of 0.
CounterZeroOnAcquire ==
    \A i \in Indices(workers) :
        (Stepped(i, "deskClaimed") /\ workers[i].physicalState = "WORKING")
            => workers[i].deskSearchAttempts = 0


\* C30: findDeskForWorker called for a worker whose retry counter is 3 or
\* more leaves the worker FRUSTRATED and WANDERING with a random
\* destination, whether or not there are desks to choose, and changes
\* neither the counter nor any desk.
GivesUpAtLimit ==
    [][\A i \in Indices(workers) :
          ( /\ last'.op = "findDeskForWorker"
            /\ last'.worker = i
            /\ workers[i].deskSearchAttempts >= FrustrationLimit )
          => ( /\ workers'[i].mentalState = "FRUSTRATED"
               /\ workers'[i].physicalState = "WANDERING"
               /\ workers'[i].destinationLocation = RandomPoint
               /\ workers'[i].deskSearchAttempts = workers[i].deskSearchAttempts
               /\ desks' = desks )]_vars

\* C30, the case: findDeskForWorker has just given up for a worker at the
\* limit although there was a desk to choose
GivesUpAtLimitWitness ==
    \E i \in Indices(workers) :
        /\ last.op = "findDeskForWorker"
        /\ last.worker = i
        /\ "gaveUp" \in last.log
        /\ workers[i].deskSearchAttempts >= FrustrationLimit
        /\ workers[i].physicalState = "WANDERING"
        /\ AvailableDesksFor(Registries, i) # {}


\* C31: a tick in which a worker arrives at a desk that is OCCUPIED, or
\* ASSIGNED with another occupant than the worker, changes no desk, leaves
\* the worker without a current desk and not WORKING, and leaves it with
\* the mood of a desk search run on a CONFUSED worker: CONFUSED, or
\* FRUSTRATED where the search gave up or failed at the limit.
TakenDeskUntouched ==
    [][\A i \in Indices(workers) :
          ( /\ last'.op = "updateWorkers"
            /\ last'.worker = i
            /\ "deskTaken" \in last'.log )
          => ( /\ desks' = desks
               /\ workers'[i].currentOccupiedDeskId = Null
               /\ workers'[i].physicalState # "WORKING"
               /\ last'.log \cap {"deskChosen", "noDesk", "gaveUp"} # {}
               /\ workers'[i].mentalState =
                      IF \/ "gaveUp" \in last'.log
                         \/ /\ "noDesk" \in last'.log
                            /\ workers'[i].deskSearchAttempts >= FrustrationLimit
                      THEN "FRUSTRATED" ELSE "CONFUSED" )]_vars

\* C31, the case: the step taken last brought a worker to a desk at which
\* another worker is WORKING
TakenDeskUntouchedWitness ==
    \E i \in Indices(workers) :
        /\ Stepped(i, "deskTaken")
        /\ \E d \in Indices(desks) :
              /\ workers[i].location = <<"desk", d>>
              /\ desks[d].state = "OCCUPIED"
              /\ desks[d].occupiedBy # i


TimeUntilEvent(i) == events[CurrentEvent(i)].startTime - currentTime

DayCountTracksTime ==
    FrameOver =>
        /\ dayCount - 1 = deltaTime \div DayDurationMs
        /\ resetDayCalls = deltaTime \div DayDurationMs


\* C35: after initializeOffice and after resetDay every worker has 1 to 3
\* event ids in the order of their start times, each the id of an event
\* of the registry that has the worker among its attendees.
EventListsSound ==
    last.op \in {"initializeOffice", "resetDay"} =>
        \A i \in Indices(workers) :
            LET ids == workers[i].workerEventIds
            IN  /\ Len(ids) >= 1
                /\ Len(ids) <= MaxEventsPerWorker
                /\ \A j \in Indices(ids) :
                      /\ ids[j] \in Indices(events)
                      /\ i \in AttendeesOf(ids[j])
                /\ \A j, k \in Indices(ids) :
                      j < k => events[ids[j]].startTime
                                   <= events[ids[k]].startTime

\* C35, the case: resetDay has given a worker two events of which the one
\* created later starts earlier
EventListsSoundWitness ==
    /\ last.op = "resetDay"
    /\ \E i \in Indices(workers) :
          LET ids == workers[i].workerEventIds
          IN  /\ Len(ids) > 1
              /\ ids[1] > ids[2]
              /\ events[ids[1]].startTime < events[ids[2]].startTime


\* C36: at every tick the workers that are ATTENDING_EVENT in one space
\* attend one event.
OneEventPerSpace ==
    cursor = 0 =>
        \A a, b \in Indices(workers) :
            ( /\ workers[a].physicalState = "ATTENDING_EVENT"
              /\ workers[b].physicalState = "ATTENDING_EVENT"
              /\ workers[a].currentOccupiedSpaceId # Null
              /\ workers[a].currentOccupiedSpaceId
                    = workers[b].currentOccupiedSpaceId )
            => CurrentEvent(a) = CurrentEvent(b)


\* C37: after initializeOffice, after resetDay and at the end of every
\* updateWorkers tick a worker has a destination if and only if it is
\* ARRIVING, WANDERING, MOVING_TO_DESK or MOVING_TO_SPACE.
DestinationIffMoving ==
    (cursor = 0 /\ last.op \in {"initializeOffice", "resetDay", "updateWorkers"})
    => \A i \in Indices(workers) :
          workers[i].destinationLocation # NoPoint
          <=> workers[i].physicalState \in
                {"ARRIVING", "WANDERING", "MOVING_TO_DESK", "MOVING_TO_SPACE"}


\* C38: at every tick a worker has a current desk if and only if it is
\* WORKING, and that desk has the worker as its occupant.
CurrentDeskIffWorking ==
    cursor = 0 =>
        \A i \in Indices(workers) :
            LET d == workers[i].currentOccupiedDeskId
            IN  /\ d # Null <=> workers[i].physicalState = "WORKING"
                /\ d # Null => desks[d].occupiedBy = i

\* C38, the case: a tick is over, a worker is WORKING at its current desk
\* and another worker has left the desk it worked at
CurrentDeskIffWorkingWitness ==
    /\ cursor = 0
    /\ last.op = "updateWorkers"
    /\ \E i, j \in Indices(workers) :
          /\ workers[i].physicalState = "WORKING"
          /\ workers[i].currentOccupiedDeskId # Null
          /\ workers[j].physicalState # "WORKING"
          /\ workers[j].lastOccupiedDeskId # Null
          /\ workers[j].currentOccupiedDeskId = Null

\* C39: at every tick a worker has a current space if and only if it is
\* ATTENDING_EVENT.
CurrentSpaceIffAttending ==
    cursor = 0 =>
        \A i \in Indices(workers) :
            workers[i].currentOccupiedSpaceId # Null
            <=> workers[i].physicalState = "ATTENDING_EVENT"


\* C39, the case: a tick is over, a worker is ATTENDING_EVENT in its
\* current space and another worker has left the space it attended in
CurrentSpaceIffAttendingWitness ==
    /\ cursor = 0
    /\ last.op = "updateWorkers"
    /\ \E i, j \in Indices(workers) :
          /\ workers[i].physicalState = "ATTENDING_EVENT"
          /\ workers[i].currentOccupiedSpaceId # Null
          /\ workers[j].physicalState # "ATTENDING_EVENT"
          /\ workers[j].lastOccupiedSpaceId # Null
          /\ workers[j].currentOccupiedSpaceId = Null

----------------------------------------------------------------------------
\* The managed office as Simulation runs it, with more desks than workers
\* (createDesks builds at least 24 desks, initializeOffice creates 10
\* workers): every worker has a desk of its own and one desk is assigned
\* to nobody.

InitSpareDesk ==
    /\ currentTime = 0
    /\ cursor = 0
    /\ \E start \in [1..NumEvents -> StartTimes],
          picksOf \in [1..MaxWorkers -> EventPicks] :
          \E m \in { initializeOffice(
                        [isManaged |-> TRUE,
                         desks |-> createDesks(MaxWorkers + 1),
                         spaces |-> createSpaces(NumSpaces),
                         events |-> << >>, workers |-> << >>,
                         log |-> {}, event |-> Null],
                        MaxWorkers, start, picksOf) } :
              /\ isManaged = m.isManaged
              /\ desks = m.desks
              /\ spaces = m.spaces
              /\ events = m.events
              /\ workers = m.workers
              /\ last = [op |-> "initializeOffice", worker |-> 0,
                         log |-> {}, event |-> Null]
              /\ dialogs = << >>
              /\ clock = NoClock

NextSpareDesk == NextFrame \/ ResetDay \/ UpdateWorkers

SpecSpareDesk == InitSpareDesk /\ [][NextSpareDesk]_vars

\* C40: in managed mode, at every tick, every ASSIGNED desk is the assigned
\* desk of some worker, and its occupant, when it has one, is a worker whose
\* assigned desk it is.
AssignedDeskHasOwner ==
    (isManaged /\ cursor = 0 /\ last.op = "updateWorkers") =>
        \A d \in Indices(desks) :
            desks[d].state = "ASSIGNED" =>
                /\ \E i \in Indices(workers) : workers[i].assignedDeskId = d
                /\ desks[d].occupiedBy # Null =>
                       /\ desks[d].occupiedBy \in Indices(workers)
                       /\ workers[desks[d].occupiedBy].assignedDeskId = d

====
